---- MODULE Spec2Model ----
(***************************************************************************)
(* A model of page_rank.py: the two PageRank estimators                    *)
(* stochastic_page_rank (random walks) and distribution_page_rank          *)
(* (probability propagation) over a graph given as a dict from node to     *)
(* the list of its targets.                                                *)
(*                                                                         *)
(* Scores are exact rationals <<numerator, denominator>> in lowest terms   *)
(* with a positive denominator.  Python exceptions are modelled by         *)
(* pc = "failed" and the exception's class name in error.                  *)
(***************************************************************************)
EXTENDS Integers, Sequences, FiniteSets, TLC

\* ------------------------------------------------------------------ bounds
Nodes == {"A", "B", "C"}
MaxEdges == 3
MaxWalks == 1
MaxSteps == 1
MaxRounds == 2

\* ------------------------------------------------------- exact arithmetic
RECURSIVE GCD(_, _)
GCD(a, b) == IF b = 0 THEN a ELSE GCD(b, a % b)

Abs(x) == IF x < 0 THEN -x ELSE x

\* the rational n/d (d # 0) in lowest terms
Frac(n, d) ==
    LET g == GCD(Abs(n), Abs(d))
        s == IF d < 0 THEN -1 ELSE 1
    IN  <<(s * n) \div g, (s * d) \div g>>

Zero == <<0, 1>>
One == <<1, 1>>

RAdd(x, y) == Frac(x[1] * y[2] + y[1] * x[2], x[2] * y[2])

\* the sum of the values of a dict of rationals
RECURSIVE SumOver(_, _)
SumOver(d, keys) ==
    IF keys = {} THEN Zero
    ELSE LET k == CHOOSE x \in keys : TRUE
         IN  RAdd(d[k], SumOver(d, keys \ {k}))

Total(d) == SumOver(d, DOMAIN d)

\* ------------------------------------------------------------------ graphs
EmptyDict == [k \in {} |-> Zero]

RECURSIVE SeqsOfLen(_)
SeqsOfLen(n) ==
    IF n = 0 THEN {<<>>}
    ELSE {Append(s, v) : s \in SeqsOfLen(n - 1), v \in Nodes}

SeqsUpTo(n) == UNION {SeqsOfLen(m) : m \in 0..n}

RECURSIVE EdgeCount(_, _)
EdgeCount(g, keys) ==
    IF keys = {} THEN 0
    ELSE LET k == CHOOSE x \in keys : TRUE
         IN  Len(g[k]) + EdgeCount(g, keys \ {k})

\* every dict from nodes to target lists with at most n edges in all
GraphsUpTo(n) ==
    UNION {{g \in [K -> SeqsUpTo(n)] : EdgeCount(g, K) <= n} : K \in SUBSET Nodes}

Graphs == GraphsUpTo(MaxEdges)

Targets(g, k) == {g[k][p] : p \in 1..Len(g[k])}

\* a node with zero out-edges: a key with an empty list, or a target that is no key
IsDangling(g, v) == v \notin DOMAIN g \/ g[v] = <<>>
HasDangling(g) ==
    \E k \in DOMAIN g : g[k] = <<>> \/ \E v \in Targets(g, k) : v \notin DOMAIN g

\* A->B, B->C, C->A
Cycle3 == [k \in Nodes |-> IF k = "A" THEN <<"B">> ELSE IF k = "B" THEN <<"C">> ELSE <<"A">>]
\* A->B, B->A
TwoCycle == [k \in {"A", "B"} |-> IF k = "A" THEN <<"B">> ELSE <<"A">>]
\* A->A, A->B, B->A: the uniform start is no fixed point
Funnel == [k \in {"A", "B"} |-> IF k = "A" THEN <<"A", "B">> ELSE <<"A">>]
\* C->C
Loop == [k \in {"C"} |-> <<"C">>]
\* A->B, and B has no out-edge
Sink == [k \in {"A"} |-> <<"B">>]
\* no node at all
EmptyGraph == [k \in {} |-> <<>>]

\* the graphs of a session of calls
SessionGraphs == {Cycle3, TwoCycle, Funnel, Loop, Sink, EmptyGraph}

\* ------------------------------------------------------------- dict helpers
\* d[k] = v for every k in keys, the other entries of d kept (lines 80-81, 122-123)
SetAll(d, keys, v) ==
    [k \in DOMAIN d \cup keys |-> IF k \in keys THEN v ELSE d[k]]

\* dict.update (line 131): the entries of e replace or extend those of d
Update(d, e) ==
    [k \in DOMAIN d \cup DOMAIN e |-> IF k \in DOMAIN e THEN e[k] ELSE d[k]]

\* a defaultdict would insert an empty list for a key it is asked for and lacks
GraphAfterLookupDefault(g, k) ==
    IF k \in DOMAIN g THEN g
    ELSE [x \in DOMAIN g \cup {k} |-> IF x = k THEN <<>> ELSE g[x]]

\* graph_rep_list[k] on the plain dict built by load_graph reads and never inserts
GraphAfterLookup(g, k) == g

\* ------------------------------------------------------ distribution maths
\* 1/len(graph_rep_list.keys()) for every key (lines 114-115)
InitialProb(g) == [k \in DOMAIN g |-> Frac(1, Cardinality(DOMAIN g))]

\* the share with the out-degree counted one too high
ShareOffByOne(p, d) == Frac(p[1], p[2] * (d + 1))

\* p = node_prob[key] / len(graph_rep_list[key]) (line 126), d # 0
Share(p, d) == Frac(p[1], p[2] * d)

\* next_prob[value] += p for the targets from position idx on (lines 128-129)
RECURSIVE ScatterFrom(_, _, _, _)
ScatterFrom(next, targets, p, idx) ==
    IF idx > Len(targets) THEN next
    ELSE ScatterFrom([next EXCEPT ![targets[idx]] = RAdd(@, p)], targets, p, idx + 1)

\* the loop over the keys of lines 125-129, on a graph none of whose keys fails
RECURSIVE ScatterKeys(_, _, _, _)
ScatterKeys(next, g, prob, keys) ==
    IF keys = {} THEN next
    ELSE LET k == CHOOSE x \in keys : TRUE
         IN  ScatterKeys(ScatterFrom(next, g[k], Share(prob[k], Len(g[k])), 1),
                         g, prob, keys \ {k})

\* one pass of the body of the loop of line 120: the new next_prob
Propagate(g, prob, next) ==
    ScatterKeys(SetAll(next, DOMAIN g, Zero), g, prob, DOMAIN g)

\* the keys at which lines 126-129 raise, and the exception raised there
FailingKeys(g) ==
    {k \in DOMAIN g : g[k] = <<>> \/ \E v \in Targets(g, k) : v \notin DOMAIN g}

RoundError(g, k) == IF g[k] = <<>> THEN "ZeroDivisionError" ELSE "KeyError"

\* ------------------------------------------------------------------- state
VARIABLES
    graph,          \* graph_rep_list, the dict handed to the estimator
    kind,           \* which estimator is running or ran last
    pc,             \* position in the running estimator
    n_iter,         \* parameter n_iter
    n_steps,        \* parameter n_steps
    i,              \* loop index of line 84 / line 120
    j,              \* loop index of line 88: the hops taken by the current walk
    current_node,   \* the walker's node
    hit_count,      \* stochastic_page_rank's result dict
    node_prob,      \* distribution_page_rank's result dict
    next_prob,      \* distribution_page_rank's scratch dict
    error,          \* the exception that ended the call, "none" otherwise
    memo            \* a remembered earlier return of distribution_page_rank

vars == <<graph, kind, pc, n_iter, n_steps, i, j, current_node, hit_count,
          node_prob, next_prob, error, memo>>

NoNode == "-"
\* memo.since: 0 when the return is remembered, 1 once another call (the other
\* estimator, another graph or another n_iter) has started since, 2 once a call
\* of distribution_page_rank with the remembered arguments has started after that
NoMemo == [g |-> EmptyDict, n |-> -2, res |-> EmptyDict, since |-> 0]

Observe(m, k, g, n) ==
    IF m = NoMemo THEN m
    ELSE IF k = "distribution" /\ g = m.g /\ n = m.n
    THEN [m EXCEPT !.since = IF @ = 0 THEN 0 ELSE 2]
    ELSE [m EXCEPT !.since = IF @ = 0 THEN 1 ELSE @]

Idle == pc \in {"idle", "done", "failed"}

InitWith(gs) ==
    /\ graph \in gs
    /\ kind = "none"
    /\ pc = "idle"
    /\ n_iter = 0
    /\ n_steps = 0
    /\ i = 0
    /\ j = 0
    /\ current_node = NoNode
    /\ hit_count = EmptyDict
    /\ node_prob = EmptyDict
    /\ next_prob = EmptyDict
    /\ error = "none"
    /\ memo = NoMemo

Init == InitWith(Graphs)

\* --------------------------------------------------- stochastic_page_rank
\* lines 78-81: the call and the zeroed hit_count
CallStochastic(g, n, s) ==
    /\ Idle
    /\ graph' = g
    /\ kind' = "stochastic"
    /\ n_iter' = n
    /\ n_steps' = s
    /\ hit_count' = SetAll(EmptyDict, DOMAIN g, Zero)
    /\ node_prob' = EmptyDict
    /\ next_prob' = EmptyDict
    /\ i' = 0
    /\ j' = 0
    /\ current_node' = NoNode
    /\ error' = "none"
    /\ pc' = "walk"
    /\ memo' = Observe(memo, "stochastic", g, n)

\* lines 84-86: one more walk, started on a random key
StartWalk ==
    /\ pc = "walk"
    /\ kind = "stochastic"
    /\ i < n_iter + 1
    /\ IF DOMAIN graph = {}
       THEN /\ pc' = "failed"
            /\ error' = "IndexError"
            /\ UNCHANGED <<current_node, j>>
       ELSE /\ current_node' \in DOMAIN graph
            /\ j' = 0
            /\ pc' = IF 0 < n_steps + 1 THEN "hop" ELSE "credit"
            /\ UNCHANGED error
    /\ UNCHANGED <<graph, kind, n_iter, n_steps, i, hit_count, node_prob, next_prob, memo>>

\* lines 88-90: one hop to a random target of the current node
Hop ==
    /\ pc = "hop"
    /\ j < n_steps + 1
    /\ graph' = GraphAfterLookup(graph, current_node)
    /\ IF current_node \notin DOMAIN graph
       THEN /\ pc' = "failed"
            /\ error' = "KeyError"
            /\ UNCHANGED <<current_node, j>>
       ELSE IF graph[current_node] = <<>>
       THEN /\ pc' = "failed"
            /\ error' = "IndexError"
            /\ UNCHANGED <<current_node, j>>
       ELSE /\ current_node' \in Targets(graph, current_node)
            /\ j' = j + 1
            /\ pc' = IF j + 1 < n_steps + 1 THEN "hop" ELSE "credit"
            /\ UNCHANGED error
    /\ UNCHANGED <<kind, n_iter, n_steps, i, hit_count, node_prob, next_prob, memo>>

\* lines 92-94: hit_count[current_node] += 1/n_iter
Credit ==
    /\ pc = "credit"
    /\ IF current_node \notin DOMAIN hit_count
       THEN /\ pc' = "failed"
            /\ error' = "KeyError"
            /\ UNCHANGED <<hit_count, i>>
       ELSE IF n_iter = 0
       THEN /\ pc' = "failed"
            /\ error' = "ZeroDivisionError"
            /\ UNCHANGED <<hit_count, i>>
       ELSE /\ hit_count' = [hit_count EXCEPT ![current_node] = RAdd(@, Frac(1, n_iter))]
            /\ i' = i + 1
            /\ pc' = "walk"
            /\ UNCHANGED error
    /\ UNCHANGED <<graph, kind, n_iter, n_steps, j, current_node, node_prob, next_prob, memo>>

\* line 95
ReturnStochastic ==
    /\ pc = "walk"
    /\ kind = "stochastic"
    /\ i >= n_iter + 1
    /\ pc' = "done"
    /\ UNCHANGED <<graph, kind, n_iter, n_steps, i, j, current_node, hit_count,
                   node_prob, next_prob, error, memo>>

\* ------------------------------------------------- distribution_page_rank
\* the call as it would be with node_prob and next_prob kept between calls
\* (module-level dicts, or mutable default arguments)
CallDistributionStale(g, n) ==
    /\ Idle
    /\ graph' = g
    /\ kind' = "distribution"
    /\ n_iter' = n
    /\ n_steps' = 0
    /\ node_prob' = Update(node_prob, InitialProb(g))
    /\ next_prob' = next_prob
    /\ hit_count' = EmptyDict
    /\ i' = 0
    /\ j' = 0
    /\ current_node' = NoNode
    /\ error' = "none"
    /\ pc' = "round"
    /\ memo' = Observe(memo, "distribution", g, n)

\* lines 112-118: the call, the uniform node_prob and the empty next_prob
CallDistribution(g, n) ==
    /\ Idle
    /\ graph' = g
    /\ kind' = "distribution"
    /\ n_iter' = n
    /\ n_steps' = 0
    /\ node_prob' = Update(EmptyDict, InitialProb(g))
    /\ next_prob' = EmptyDict
    /\ hit_count' = EmptyDict
    /\ i' = 0
    /\ j' = 0
    /\ current_node' = NoNode
    /\ error' = "none"
    /\ pc' = "round"
    /\ memo' = Observe(memo, "distribution", g, n)

\* lines 120-131: one propagation round; the first key (in the dict's order,
\* which the model leaves open) at which a division or a lookup fails raises
Round ==
    /\ pc = "round"
    /\ kind = "distribution"
    /\ i < n_iter + 1
    /\ IF FailingKeys(graph) # {}
       THEN /\ pc' = "failed"
            /\ \E k \in FailingKeys(graph) : error' = RoundError(graph, k)
            /\ UNCHANGED <<node_prob, next_prob, i>>
       ELSE /\ next_prob' = Propagate(graph, node_prob, next_prob)
            /\ node_prob' = Update(node_prob, next_prob')
            /\ i' = i + 1
            /\ UNCHANGED <<pc, error>>
    /\ UNCHANGED <<graph, kind, n_iter, n_steps, j, current_node, hit_count, memo>>

\* line 133; rec: the observer remembers this return when it remembers none yet
ReturnDistribution(rec) ==
    /\ pc = "round"
    /\ kind = "distribution"
    /\ i >= n_iter + 1
    /\ pc' = "done"
    /\ memo' = IF rec /\ memo = NoMemo
               THEN [g |-> graph, n |-> n_iter, res |-> node_prob, since |-> 0]
               ELSE memo
    /\ UNCHANGED <<graph, kind, n_iter, n_steps, i, j, current_node, hit_count,
                   node_prob, next_prob, error>>

\* ------------------------------------------------------------------ specs
\* main(): one loaded graph, handed to both estimators
Next ==
    \/ \E n \in -1..MaxWalks, s \in 0..MaxSteps : CallStochastic(graph, n, s)
    \/ StartWalk
    \/ Hop
    \/ Credit
    \/ ReturnStochastic
    \/ \E n \in 0..MaxRounds : CallDistribution(graph, n)
    \/ Round
    \/ ReturnDistribution(FALSE)

Spec == Init /\ [][Next]_vars

\* a session of calls on any graphs, in any order, with an observer of the returns
InitSession == InitWith(SessionGraphs)

NextSession ==
    \/ \E g \in SessionGraphs, n \in -1..MaxWalks, s \in 0..MaxSteps : CallStochastic(g, n, s)
    \/ StartWalk
    \/ Hop
    \/ Credit
    \/ ReturnStochastic
    \/ \E g \in SessionGraphs, n \in 0..MaxRounds : CallDistribution(g, n)
    \/ Round
    \/ \E rec \in BOOLEAN : ReturnDistribution(rec)

SpecSession == InitSession /\ [][NextSession]_vars

\* ----------------------------------------------------------------- claims
Returned == pc = "done"
Ended == pc \in {"done", "failed"}

\* the mapping the propagation step yields from prob after n rounds
RECURSIVE Rounds(_, _, _)
Rounds(g, prob, n) ==
    IF n = 0 THEN prob ELSE Rounds(g, Propagate(g, prob, EmptyDict), n - 1)

\* C1: on a graph with no dangling node and with n_iter >= 0, the mass of
\* distribution_page_rank sums to exactly 1 before and after every round and
\* in the mapping returned.
C1_MassIsOne ==
    (kind = "distribution" /\ ~HasDangling(graph) /\ n_iter >= 0 /\ pc \in {"round", "done"})
        => Total(node_prob) = One

\* What the code does keep: the mass is 1 on every such graph that has a node.
MassIsOneWithNodes ==
    (kind = "distribution" /\ ~HasDangling(graph) /\ DOMAIN graph # {}
        /\ pc \in {"round", "done"})
        => Total(node_prob) = One

\* C2: on a graph with no dangling node, distribution_page_rank(graph, n_iter)
\* returns the uniform mapping propagated exactly n_iter times.
C2_ExactlyNRounds ==
    (kind = "distribution" /\ Returned /\ ~HasDangling(graph) /\ n_iter >= 0)
        => node_prob = Rounds(graph, InitialProb(graph), n_iter)

\* What the code returns: the uniform mapping propagated n_iter + 1 times.
OneRoundMore ==
    (kind = "distribution" /\ Returned /\ ~HasDangling(graph))
        => node_prob = Rounds(graph, InitialProb(graph), n_iter + 1)

\* C3: on a graph with no dangling node and with n_iter > 0, stochastic_page_rank
\* has simulated exactly n_iter walks when it returns, and the scores sum to 1.
C3_WalksSumToOne ==
    (kind = "stochastic" /\ Returned /\ ~HasDangling(graph) /\ n_iter > 0)
        => (i = n_iter /\ Total(hit_count) = One)

\* What the code returns: n_iter + 1 walks, credited 1/n_iter each.
OneWalkMore ==
    (kind = "stochastic" /\ Returned /\ n_iter > 0)
        => (i = n_iter + 1 /\ Total(hit_count) = Frac(n_iter + 1, n_iter))

\* C4: a walk has taken exactly n_steps hops when its final node is credited.
C4_ExactlyNSteps ==
    pc = "credit" => j = n_steps

\* What the code does: n_steps + 1 hops before the credit.
OneHopMore ==
    pc = "credit" => j = n_steps + 1

\* C5: on a graph with a dangling node and with n_iter >= 0,
\* distribution_page_rank ends in DanglingNodeError and returns no mapping.
C5_DistributionDanglingError ==
    (kind = "distribution" /\ Ended /\ HasDangling(graph) /\ n_iter >= 0)
        => (pc = "failed" /\ error = "DanglingNodeError")

\* C6: a walk of stochastic_page_rank that stands on a dangling node with a hop
\* still to take ends the call in DanglingNodeError.
C6_WalkDanglingError ==
    (kind = "stochastic" /\ pc = "failed" /\ current_node \in Nodes
        /\ IsDangling(graph, current_node) /\ j < n_steps)
        => error = "DanglingNodeError"

\* C7: stochastic_page_rank with n_iter <= 0, and either estimator on a graph
\* with no node, end in InvalidParameterError and return no mapping.
C7_InvalidParameterError ==
    (Ended /\ ((kind = "stochastic" /\ n_iter <= 0) \/ DOMAIN graph = {}))
        => (pc = "failed" /\ error = "InvalidParameterError")

\* C8: no step of either estimator changes the graph it was given: the keys and
\* every key's target list stay as they were, also when the call fails.
C8_GraphUnchanged == [][graph' = graph]_vars

\* a walk has looked up a node that is a target and no key, and the call failed
C8_Witness ==
    /\ kind = "stochastic"
    /\ pc = "failed"
    /\ error = "KeyError"
    /\ current_node \in Nodes \ DOMAIN graph
    /\ j > 0

\* C9: on the cycle A->B, B->C, C->A distribution_page_rank holds exactly 1/3
\* for each node before and after every round, and returns it, for every n_iter.
C9_CycleFixedPoint ==
    (kind = "distribution" /\ graph = Cycle3 /\ pc \in {"round", "done"})
        => node_prob = [k \in Nodes |-> Frac(1, 3)]

\* the cycle's call has returned after at least two rounds
C9_Witness ==
    /\ kind = "distribution"
    /\ graph = Cycle3
    /\ Returned
    /\ i >= 2

\* C10: a call of distribution_page_rank returns the mapping that an earlier
\* call with the same graph and the same n_iter returned, whatever calls ran
\* before the earlier one or between the two.
C10_SameArgumentsSameResult ==
    (kind = "distribution" /\ Returned /\ memo # NoMemo /\ memo.g = graph /\ memo.n = n_iter)
        => node_prob = memo.res

\* a second call with the remembered arguments has returned, after other calls
\* in between, on a graph on which a round changes the mapping
C10_Witness ==
    /\ kind = "distribution"
    /\ Returned
    /\ memo.since = 2
    /\ memo.g = graph
    /\ memo.n = n_iter
    /\ graph = Funnel
    /\ n_iter >= 1

====
